---- MODULE Spec2Model ----
(***************************************************************************)
(* Ball-Sort: the interactive move engine (makeMove / undo / redo /        *)
(* startNewGame) of src/src/App.jsx and of the older variant               *)
(* src/unnamed/part_000, and the breadth-first solver solvePuzzleBFS of    *)
(* src/src/App.jsx.                                                        *)
(*                                                                         *)
(* A tube is a sequence of colour codes, element 1 being the top ball      *)
(* (tube[0] in the source).  Tube indices are kept 0-based as in the       *)
(* source: tube i of the source is tubes[i + 1] here.                      *)
(***************************************************************************)
EXTENDS Integers, Sequences, FiniteSets, TLC

VARIABLES
    variant,       \* which component runs the session: "App" or "part_000"
    puzzle,        \* initialPuzzleState / initialTubes: [maxBalls, tubes]
    tubes,         \* useState(initialPuzzleState.tubes)
    moveCount,     \* useState(0)
    moveHistory,   \* useState([])
    redoStack,     \* useState([])
    isComplete,    \* useState(false)
    log,           \* observer: the last operations, each with the session before it
    pc,            \* "session" (interactive play), "rules" (bare moves), or the
                   \* place of solvePuzzleBFS: "idle", "loop", "done"
    maxMoves,      \* solvePuzzleBFS parameter maxMoves
    queue,         \* solvePuzzleBFS: const queue
    visited,       \* solvePuzzleBFS: const visited
    explored,      \* solvePuzzleBFS: let moveCount (states dequeued)
    maxQueueSize,  \* solvePuzzleBFS: let maxQueueSize
    result,        \* the object solvePuzzleBFS returns; in a session, useState(null)
                   \* solution, which receives it
    given,         \* the contents of the array passed to solvePuzzleBFS as initialTubes
    solving,       \* useState(false) solving
    validation,    \* useState(null) validation
    expanded,      \* observer: the nodes this run has dequeued, in order
    firstRun,      \* observer: what an earlier run on the same arguments returned
    peak           \* observer: the largest queue.length this run has had

sessionVars == <<tubes, moveCount, moveHistory, redoStack, isComplete, log>>
solverVars  == <<pc, maxMoves, queue, visited, explored, maxQueueSize, result,
                 expanded, firstRun, peak, given, solving, validation>>
appVars == <<solving, validation>>
vars == <<variant, puzzle, sessionVars, solverVars>>

(***************************************************************************)
(* Bounds of the model.                                                    *)
(***************************************************************************)
\* accepted moves a session may hold in its history
MaxHistory == 3

(***************************************************************************)
(* Colours.                                                                *)
(***************************************************************************)
COLORS ==
    [LB |-> "LIGHT_BLUE", DB |-> "DARK_BLUE", LG |-> "LIGHT_GREEN",
     DG |-> "DARK_GREEN", PK |-> "PINK", RD |-> "RED", OR |-> "ORANGE",
     PU |-> "PURPLE", GY |-> "GRAY"]

validColors == DOMAIN COLORS

(***************************************************************************)
(* Array helpers of the source language.                                   *)
(***************************************************************************)
\* tubes[i] with the source's 0-based index
At(ts, i) == ts[i + 1]

\* tube.slice(1)
Slice1(tube) == IF Len(tube) = 0 THEN <<>> ELSE Tail(tube)

\* array.slice(0, -1)
DropLast(s) == IF Len(s) = 0 THEN <<>> ELSE SubSeq(s, 1, Len(s) - 1)

\* [ball, ...tube]
Unshift(ball, tube) == <<ball>> \o tube

\* a copy of ts with tube i replaced
WithTube(ts, i, tube) == [ts EXCEPT ![i + 1] = tube]

TubeIdx(ts) == 0 .. (Len(ts) - 1)

(***************************************************************************)
(* Solved test.                                                            *)
(***************************************************************************)
isTubeSorted(tube, K) ==
    IF Len(tube) = 0 THEN FALSE
    ELSE IF Len(tube) = K THEN \A k \in 1 .. Len(tube) : tube[k] = tube[1]
    ELSE FALSE

isSolved(ts, K) ==
    \A i \in TubeIdx(ts) : isTubeSorted(At(ts, i), K) \/ Len(At(ts, i)) = 0

\* part_000: isTubeComplete.  That file writes the capacity as the literal 6
\* (its tubes hold six balls); here it is the capacity K of the puzzle played
isTubeComplete(tube, K) ==
    IF Len(tube) # K THEN FALSE
    ELSE \A k \in 1 .. Len(tube) : tube[k] = tube[1]

\* part_000: the value checkPuzzleComplete computes and returns
checkPuzzleComplete(ts, K) ==
    \A i \in TubeIdx(ts) : Len(At(ts, i)) = 0 \/ isTubeComplete(At(ts, i), K)

(***************************************************************************)
(* The initial puzzles.  The source fixes one (initialPuzzleState in       *)
(* App.jsx, initialTubes in part_000); the model runs the same code on     *)
(* small puzzles of the same shape: every colour appears maxBalls times    *)
(* and no tube is longer than maxBalls.                                    *)
(***************************************************************************)
SessionPuzzles ==
    { [maxBalls |-> 2, tubes |-> << <<"RD">>, <<"RD">> >>],
      [maxBalls |-> 2, tubes |-> << <<"RD", "PK">>, <<"PK", "RD">>, <<>> >>],
      [maxBalls |-> 3, tubes |-> << <<"RD", "PK", "PK">>, <<"PK", "RD", "RD">>, <<>> >>] }

(***************************************************************************)
(* The interactive session.  An event handler runs on the state of the     *)
(* last render; the state setters it calls are queued and applied in       *)
(* order before the next handler runs.  makeMove, undo and redo below      *)
(* give the session after that.  The transient dragState (the shake on a   *)
(* rejected move) is not part of the session.                              *)
(***************************************************************************)
Session ==
    [tubes |-> tubes, moveCount |-> moveCount, moveHistory |-> moveHistory,
     redoStack |-> redoStack, isComplete |-> isComplete]

\* isValidMove without the capacity test on the destination
isValidMove_NoCapacityCheck(ts, K, fromTube, toTube) ==
    IF fromTube = toTube THEN FALSE
    ELSE IF Len(At(ts, fromTube)) = 0 THEN FALSE
    ELSE IF Len(At(ts, toTube)) = 0 THEN TRUE
    ELSE At(ts, toTube)[1] = At(ts, fromTube)[1]

isValidMove(ts, K, fromTube, toTube) ==
    IF fromTube = toTube THEN FALSE
    ELSE IF Len(At(ts, fromTube)) = 0 THEN FALSE
    ELSE IF Len(At(ts, toTube)) >= K THEN FALSE
    ELSE IF Len(At(ts, toTube)) = 0 THEN TRUE
    ELSE At(ts, toTube)[1] = At(ts, fromTube)[1]

\* makeMove putting the ball on the destination without taking it off the source
moveBall_KeepsSource(ts, fromTube, toTube) ==
    WithTube(ts, toTube, Unshift(At(ts, fromTube)[1], At(ts, toTube)))

\* makeMove: newTubes after the ball was moved
moveBall(ts, fromTube, toTube) ==
    LET ball == At(ts, fromTube)[1]
        t1   == WithTube(ts, fromTube, Slice1(At(ts, fromTube)))
    IN  WithTube(t1, toTube, Unshift(ball, At(t1, toTube)))

\* undo putting the ball back at the bottom of the source tube
unmoveBall_ToBottom(ts, lastMove) ==
    LET ball == At(ts, lastMove.to)[1]
        t1   == WithTube(ts, lastMove.to, Slice1(At(ts, lastMove.to)))
    IN  WithTube(t1, lastMove.from, Append(At(t1, lastMove.from), ball))

\* undo: newTubes after the last move was reversed
unmoveBall(ts, lastMove) ==
    LET ball == At(ts, lastMove.to)[1]
        t1   == WithTube(ts, lastMove.to, Slice1(At(ts, lastMove.to)))
    IN  WithTube(t1, lastMove.from, Unshift(ball, At(t1, lastMove.from)))

\* the completion flag after an accepted move
completeAfterMove(v, K, flag, newTubes) ==
    IF v = "App" THEN isSolved(newTubes, K)
    ELSE IF checkPuzzleComplete(newTubes, K) /\ ~flag THEN TRUE ELSE flag

\* the completion flag after an undo
completeAfterUndo(v, K, flag, newTubes) ==
    IF v = "App" THEN isSolved(newTubes, K) ELSE flag

\* makeMove without setRedoStack([])
makeMove_KeepsRedoStack(v, K, s, fromTube, toTube) ==
    IF ~isValidMove(s.tubes, K, fromTube, toTube)
    THEN [accepted |-> FALSE, session |-> s]
    ELSE LET ball     == At(s.tubes, fromTube)[1]
             newTubes == moveBall(s.tubes, fromTube, toTube)
         IN  [accepted |-> TRUE,
              session  |->
                [tubes       |-> newTubes,
                 moveCount   |-> s.moveCount + 1,
                 moveHistory |-> Append(s.moveHistory,
                                   [from |-> fromTube, to |-> toTube, ball |-> ball]),
                 redoStack   |-> s.redoStack,
                 isComplete  |-> completeAfterMove(v, K, s.isComplete, newTubes)]]

\* makeMove(fromTube, toTube) on session s: the returned boolean and the
\* session once the queued state updates are applied
makeMove(v, K, s, fromTube, toTube) ==
    IF ~isValidMove(s.tubes, K, fromTube, toTube)
    THEN [accepted |-> FALSE, session |-> s]
    ELSE LET ball     == At(s.tubes, fromTube)[1]
             newTubes == moveBall(s.tubes, fromTube, toTube)
         IN  [accepted |-> TRUE,
              session  |->
                [tubes       |-> newTubes,
                 moveCount   |-> s.moveCount + 1,
                 moveHistory |-> Append(s.moveHistory,
                                   [from |-> fromTube, to |-> toTube, ball |-> ball]),
                 redoStack   |-> <<>>,
                 isComplete  |-> completeAfterMove(v, K, s.isComplete, newTubes)]]

\* undo without setMoveCount
undo_KeepsCounter(v, K, s) ==
    IF Len(s.moveHistory) = 0 THEN s
    ELSE LET lastMove == s.moveHistory[Len(s.moveHistory)]
             newTubes == unmoveBall(s.tubes, lastMove)
         IN  [tubes       |-> newTubes,
              moveCount   |-> s.moveCount,
              moveHistory |-> DropLast(s.moveHistory),
              redoStack   |-> Append(s.redoStack, lastMove),
              isComplete  |-> completeAfterUndo(v, K, s.isComplete, newTubes)]

\* undo without setMoveHistory
undo_KeepsHistory(v, K, s) ==
    IF Len(s.moveHistory) = 0 THEN s
    ELSE LET lastMove == s.moveHistory[Len(s.moveHistory)]
             newTubes == unmoveBall(s.tubes, lastMove)
         IN  [tubes       |-> newTubes,
              moveCount   |-> s.moveCount - 1,
              moveHistory |-> s.moveHistory,
              redoStack   |-> Append(s.redoStack, lastMove),
              isComplete  |-> completeAfterUndo(v, K, s.isComplete, newTubes)]

\* undo pushing the reversal it made, not the move it undid, on the redo stack
undo_PushesReversal(v, K, s) ==
    IF Len(s.moveHistory) = 0 THEN s
    ELSE LET lastMove == s.moveHistory[Len(s.moveHistory)]
             newTubes == unmoveBall(s.tubes, lastMove)
         IN  [tubes       |-> newTubes,
              moveCount   |-> s.moveCount - 1,
              moveHistory |-> DropLast(s.moveHistory),
              redoStack   |-> Append(s.redoStack,
                                [from |-> lastMove.to, to |-> lastMove.from,
                                 ball |-> lastMove.ball]),
              isComplete  |-> completeAfterUndo(v, K, s.isComplete, newTubes)]

\* undo() on session s
undo(v, K, s) ==
    IF Len(s.moveHistory) = 0 THEN s
    ELSE LET lastMove == s.moveHistory[Len(s.moveHistory)]
             newTubes == unmoveBall(s.tubes, lastMove)
         IN  [tubes       |-> newTubes,
              moveCount   |-> s.moveCount - 1,
              moveHistory |-> DropLast(s.moveHistory),
              redoStack   |-> Append(s.redoStack, lastMove),
              isComplete  |-> completeAfterUndo(v, K, s.isComplete, newTubes)]

\* redo: the redo stack once makeMove's setRedoStack([]) and redo's own
\* setRedoStack have both been applied, in that order.  App.jsx passes an
\* updater (prev => prev.slice(0, -1)), which runs on the queued value;
\* part_000 passes the value redoStack.slice(0, -1) computed from the
\* rendered stack, which replaces the queued one.
redoStackAfterRedo(v, rendered, queued) ==
    IF v = "App" THEN DropLast(queued) ELSE DropLast(rendered)

\* redo that pops the redo stack without re-applying the move
redo_PopOnly(v, K, s) ==
    IF Len(s.redoStack) = 0 THEN s
    ELSE [s EXCEPT !.redoStack = DropLast(s.redoStack)]

\* redo() on session s
redo(v, K, s) ==
    IF Len(s.redoStack) = 0 THEN s
    ELSE LET move == s.redoStack[Len(s.redoStack)]
             r    == makeMove(v, K, s, move.from, move.to)
         IN  [r.session EXCEPT
                !.redoStack = redoStackAfterRedo(v, s.redoStack, r.session.redoStack)]

\* no validation result and no solver result: the null of useState(null)
NoValidation == [valid |-> TRUE, errors |-> <<>>, ballCounts |-> <<>>]

NoResult ==
    [returned |-> FALSE, solvable |-> FALSE, moves |-> <<>>, error |-> "",
     statesExplored |-> 0, hasStats |-> FALSE, reason |-> "",
     totalStatesExplored |-> 0, maxQueueSize |-> 0, validation |-> NoValidation]

\* startNewGame() (App.jsx only)
startNewGame(p) ==
    [tubes |-> p.tubes, moveCount |-> 0, moveHistory |-> <<>>,
     redoStack |-> <<>>, isComplete |-> FALSE]

\* the observer keeps the last two operations; each entry also names the
\* operation that came before it
PrevOf(l) ==
    IF Len(l) = 0 THEN [op |-> "none", ok |-> FALSE]
    ELSE [op |-> l[Len(l)].op, ok |-> l[Len(l)].ok]

Entry(l, op, fromTube, toTube, ok, before) ==
    [op |-> op, from |-> fromTube, to |-> toTube, ok |-> ok,
     before |-> before, prev |-> PrevOf(l)]

Remember(l, e) ==
    IF Len(l) < 2 THEN Append(l, e) ELSE Append(Tail(l), e)

InstallSession(s, e) ==
    /\ tubes' = s.tubes
    /\ moveCount' = s.moveCount
    /\ moveHistory' = s.moveHistory
    /\ redoStack' = s.redoStack
    /\ isComplete' = s.isComplete
    /\ log' = Remember(log, e)

Install(s, e) ==
    /\ InstallSession(s, e)
    /\ UNCHANGED <<variant, puzzle, solverVars>>

MakeMove(fromTube, toTube) ==
    LET r == makeMove(variant, puzzle.maxBalls, Session, fromTube, toTube)
    IN  /\ pc = "session"
        /\ r.accepted => Len(moveHistory) < MaxHistory
        /\ Install(r.session,
                   Entry(log, "makeMove", fromTube, toTube, r.accepted, Session))

Undo ==
    /\ pc = "session"
    /\ Install(undo(variant, puzzle.maxBalls, Session),
               Entry(log, "undo", -1, -1, Len(moveHistory) > 0, Session))

Redo ==
    /\ pc = "session"
    /\ Install(redo(variant, puzzle.maxBalls, Session),
               Entry(log, "redo", -1, -1, Len(redoStack) > 0, Session))

StartNewGame ==
    /\ pc = "session"
    /\ variant = "App"
    /\ InstallSession(startNewGame(puzzle),
                      Entry(log, "startNewGame", -1, -1, TRUE, Session))
    /\ validation' = NoValidation
    /\ result' = NoResult
    /\ UNCHANGED <<variant, puzzle, pc, maxMoves, queue, visited, explored,
                   maxQueueSize, expanded, firstRun, peak, given, solving>>

(***************************************************************************)
(* The solver: validatePuzzle, getNextStates, solvePuzzleBFS.              *)
(***************************************************************************)
\* default of the parameter maxMoves
DefaultMaxMoves == 25000000
\* the largest of the small state budgets 1 .. SmallBudget the solver is
\* run with, so that the budget is hit on the model's puzzles
SmallBudget == 3

SolverPuzzles ==
    { [maxBalls |-> 2, tubes |-> << <<"RD", "RD">>, <<>>, <<>> >>],
      [maxBalls |-> 2, tubes |-> << <<"RD">>, <<"RD">>, <<>> >>],
      [maxBalls |-> 2, tubes |-> << <<"RD", "PK">>, <<"PK", "RD">>, <<>> >>],
      [maxBalls |-> 2, tubes |-> << <<"RD", "PK">>, <<"PK", "LG">>, <<"LG", "RD">>, <<>> >>],
      [maxBalls |-> 3, tubes |-> << <<"RD", "PK">>, <<"RD", "PK">>, <<"RD", "PK">> >>],
      [maxBalls |-> 3, tubes |-> << <<"RD", "PK">>, <<"RD", "PK">>, <<>>, <<"RD", "PK">> >>],
      [maxBalls |-> 3, tubes |-> << <<"RD", "PK", "RD">>, <<"PK", "RD", "PK">>, <<>>, <<>> >>],
      [maxBalls |-> 2, tubes |-> << <<"RD">>, <<"PK">>, <<"LG", "RD">>, <<"LG", "PK">> >>],
      [maxBalls |-> 2, tubes |-> << <<"RD", "PK">>, <<"PK", "LG">>, <<"LG", "RD">>, <<>>, <<>> >>],
      [maxBalls |-> 2, tubes |-> << <<"RD", "RD", "RD">>, <<"PK">> >>],
      [maxBalls |-> 2, tubes |-> << <<"XX", "XX">>, <<>> >>],
      [maxBalls |-> 2, tubes |-> << <<"RD", "RD", "XX">>, <<"PK", "PK">>, <<"YY", "XX", "LG">> >>] }

RECURSIVE Flatten(_)
\* the balls of all tubes, in the order tubes.forEach / tube.forEach meets them
Flatten(ts) ==
    IF Len(ts) = 0 THEN <<>> ELSE Head(ts) \o Flatten(Tail(ts))

RECURSIVE FirstSeen(_, _)
\* the keys of counts, in insertion order
FirstSeen(balls, acc) ==
    IF Len(balls) = 0 THEN acc
    ELSE IF \E k \in 1 .. Len(acc) : acc[k] = Head(balls)
         THEN FirstSeen(Tail(balls), acc)
         ELSE FirstSeen(Tail(balls), Append(acc, Head(balls)))

\* counts[color]
CountOf(ts, color) ==
    LET flat == Flatten(ts)
    IN  Cardinality({k \in 1 .. Len(flat) : flat[k] = color})

ErrCapacity(idx, K) ==
    [kind |-> "exceeds maximum capacity", tube |-> idx + 1, color |-> "",
     count |-> 0, expected |-> K]

ErrCount(color, count, K) ==
    [kind |-> "has balls (expected)", tube |-> 0, color |-> color,
     count |-> count, expected |-> K]

ErrColor(color) ==
    [kind |-> "Invalid color code", tube |-> 0, color |-> color,
     count |-> 0, expected |-> 0]

\* validatePuzzle returning after the first kind of check that fails
validatePuzzle_ShortCircuit(ts, K) ==
    LET colors   == FirstSeen(Flatten(ts), <<>>)
        idxs     == [k \in 1 .. Len(ts) |-> k - 1]
        tooLong  == SelectSeq(idxs, LAMBDA i : Len(At(ts, i)) > K)
        badCount == SelectSeq(colors, LAMBDA c : CountOf(ts, c) # K)
        badColor == SelectSeq(colors, LAMBDA c : c \notin validColors)
        errors   ==
            IF Len(tooLong) > 0
            THEN [k \in 1 .. Len(tooLong) |-> ErrCapacity(tooLong[k], K)]
            ELSE IF Len(badCount) > 0
            THEN [k \in 1 .. Len(badCount) |->
                    ErrCount(badCount[k], CountOf(ts, badCount[k]), K)]
            ELSE [k \in 1 .. Len(badColor) |-> ErrColor(badColor[k])]
    IN  [valid      |-> Len(errors) = 0,
         errors     |-> errors,
         ballCounts |-> [c \in {colors[k] : k \in 1 .. Len(colors)} |-> CountOf(ts, c)]]

validatePuzzle(ts, K) ==
    LET colors   == FirstSeen(Flatten(ts), <<>>)
        idxs     == [k \in 1 .. Len(ts) |-> k - 1]
        tooLong  == SelectSeq(idxs, LAMBDA i : Len(At(ts, i)) > K)
        badCount == SelectSeq(colors, LAMBDA c : CountOf(ts, c) # K)
        badColor == SelectSeq(colors, LAMBDA c : c \notin validColors)
        errors   ==
            [k \in 1 .. Len(tooLong) |-> ErrCapacity(tooLong[k], K)]
            \o [k \in 1 .. Len(badCount) |->
                    ErrCount(badCount[k], CountOf(ts, badCount[k]), K)]
            \o [k \in 1 .. Len(badColor) |-> ErrColor(badColor[k])]
    IN  [valid      |-> Len(errors) = 0,
         errors     |-> errors,
         ballCounts |-> [c \in {colors[k] : k \in 1 .. Len(colors)} |-> CountOf(ts, c)]]

\* isEmptyTubeMoveNecessary that also counts full tubes as receivers
isEmptyTubeMoveNecessary_CountsFull(ts, fromTubeIdx, ball, K) ==
    ~ \E idx \in TubeIdx(ts) :
        /\ idx # fromTubeIdx
        /\ Len(At(ts, idx)) > 0
        /\ At(ts, idx)[1] = ball

isEmptyTubeMoveNecessary(ts, fromTubeIdx, ball, K) ==
    ~ \E idx \in TubeIdx(ts) :
        /\ idx # fromTubeIdx
        /\ Len(At(ts, idx)) > 0
        /\ Len(At(ts, idx)) < K
        /\ At(ts, idx)[1] = ball

\* the string getDetailedMoveDescription builds, as the values it is built from
getDetailedMoveDescription(fromIdx, toIdx, ball, targetTube) ==
    [ball      |-> COLORS[ball],
     fromLabel |-> fromIdx + 1,
     toLabel   |-> toIdx + 1,
     onTopOf   |-> IF Len(targetTube) = 0 THEN "empty" ELSE COLORS[targetTube[1]]]

\* getNextStates taking balls off a completed tube
Admitted_FromComplete(ts, K, i, j) ==
    LET fromTube == At(ts, i)
        toTube   == At(ts, j)
    IN  /\ ~(Len(fromTube) = 0)
        /\ i # j
        /\ ~(Len(toTube) >= K \/ isTubeSorted(toTube, K))
        /\ (Len(toTube) = 0 \/ toTube[1] = fromTube[1])
        /\ (Len(toTube) > 0 \/ isEmptyTubeMoveNecessary(ts, i, fromTube[1], K))

\* getNextStates without the capacity test on the destination
Admitted_IntoFull(ts, K, i, j) ==
    LET fromTube == At(ts, i)
        toTube   == At(ts, j)
    IN  /\ ~(Len(fromTube) = 0 \/ isTubeSorted(fromTube, K))
        /\ i # j
        /\ ~isTubeSorted(toTube, K)
        /\ (Len(toTube) = 0 \/ toTube[1] = fromTube[1])
        /\ (Len(toTube) > 0 \/ isEmptyTubeMoveNecessary(ts, i, fromTube[1], K))

\* getNextStates without the colour test on the destination
Admitted_AnyColour(ts, K, i, j) ==
    LET fromTube == At(ts, i)
        toTube   == At(ts, j)
    IN  /\ ~(Len(fromTube) = 0 \/ isTubeSorted(fromTube, K))
        /\ i # j
        /\ ~(Len(toTube) >= K \/ isTubeSorted(toTube, K))
        /\ (Len(toTube) > 0 \/ isEmptyTubeMoveNecessary(ts, i, fromTube[1], K))

\* getNextStates: does the double loop push a successor for (i, j)?
Admitted(ts, K, i, j) ==
    LET fromTube == At(ts, i)
        toTube   == At(ts, j)
    IN  /\ ~(Len(fromTube) = 0 \/ isTubeSorted(fromTube, K))
        /\ i # j
        /\ ~(Len(toTube) >= K \/ isTubeSorted(toTube, K))
        /\ (Len(toTube) = 0 \/ toTube[1] = fromTube[1])
        /\ (Len(toTube) > 0 \/ isEmptyTubeMoveNecessary(ts, i, fromTube[1], K))

\* getNextStates: newTubes of the successor for (i, j)
Successor(ts, i, j) ==
    LET fromTube == At(ts, i)
        toTube   == At(ts, j)
        topBall  == fromTube[1]
    IN  WithTube(WithTube(ts, i, Slice1(fromTube)), j, Unshift(topBall, toTube))

\* the (i, j) pairs in the order of the double loop
LoopPairs(n) == [k \in 1 .. n * n |-> <<(k - 1) \div n, (k - 1) % n>>]

\* getNextStates writing the successor into the tubes it was given: their
\* contents after the first move it admits
tubesAfterGetNextStates_InPlace(ts, K) ==
    LET pairs == SelectSeq(LoopPairs(Len(ts)),
                           LAMBDA p : Admitted(ts, K, p[1], p[2]))
    IN  IF Len(pairs) = 0 THEN ts ELSE Successor(ts, pairs[1][1], pairs[1][2])

\* the contents of the tubes getNextStates was given, once it has returned:
\* a successor is assembled in newTubes, a copy tube by tube, and the tubes
\* given are only read
tubesAfterGetNextStates(ts, K) == ts

getNextStates(ts, K) ==
    LET pairs == SelectSeq(LoopPairs(Len(ts)),
                           LAMBDA p : Admitted(ts, K, p[1], p[2]))
    IN  [k \in 1 .. Len(pairs) |->
            [nextTubes       |-> Successor(ts, pairs[k][1], pairs[k][2]),
             moveDescription |->
                getDetailedMoveDescription(pairs[k][1], pairs[k][2],
                    At(ts, pairs[k][1])[1], At(ts, pairs[k][2]))]]

RECURSIVE Join(_, _)
\* Array.prototype.join over parts that are themselves token sequences
Join(parts, sep) ==
    IF Len(parts) = 0 THEN <<>>
    ELSE IF Len(parts) = 1 THEN parts[1]
    ELSE parts[1] \o <<sep>> \o Join(Tail(parts), sep)

\* serializeTubes joining the tubes with the separator of the balls
serializeTubes_OneSeparator(ts) ==
    Join([i \in 1 .. Len(ts) |->
            Join([k \in 1 .. Len(ts[i]) |-> <<ts[i][k]>>], ",")], ",")

\* tubes.map(tube => tube.join(',')).join('|'), as the sequence of its tokens
serializeTubes(ts) ==
    Join([i \in 1 .. Len(ts) |->
            Join([k \in 1 .. Len(ts[i]) |-> <<ts[i][k]>>], ",")], "|")

Max(a, b) == IF a >= b THEN a ELSE b

RECURSIVE Enqueue_ToFront(_, _, _, _)
\* the for-loop over nextStates putting the new nodes at the head of the queue
Enqueue_ToFront(nextStates, path, vis, q) ==
    IF Len(nextStates) = 0 THEN [visited |-> vis, queue |-> q]
    ELSE LET n          == Head(nextStates)
             serialized == serializeTubes(n.nextTubes)
         IN  IF serialized \notin vis
             THEN Enqueue_ToFront(Tail(nextStates), path, vis \cup {serialized},
                          <<[tubes |-> n.nextTubes,
                             path  |-> Append(path, n.moveDescription)]>> \o q)
             ELSE Enqueue_ToFront(Tail(nextStates), path, vis, q)

RECURSIVE Enqueue_NoVisitedCheck(_, _, _, _)
\* the for-loop over nextStates pushing every successor, visited or not
Enqueue_NoVisitedCheck(nextStates, path, vis, q) ==
    IF Len(nextStates) = 0 THEN [visited |-> vis, queue |-> q]
    ELSE LET n          == Head(nextStates)
             serialized == serializeTubes(n.nextTubes)
         IN  Enqueue_NoVisitedCheck(Tail(nextStates), path, vis \cup {serialized},
                          Append(q, [tubes |-> n.nextTubes,
                                     path  |-> Append(path, n.moveDescription)]))

RECURSIVE Enqueue(_, _, _, _)
\* the for-loop over nextStates: [visited, queue] after it
Enqueue(nextStates, path, vis, q) ==
    IF Len(nextStates) = 0 THEN [visited |-> vis, queue |-> q]
    ELSE LET n          == Head(nextStates)
             serialized == serializeTubes(n.nextTubes)
         IN  IF serialized \notin vis
             THEN Enqueue(Tail(nextStates), path, vis \cup {serialized},
                          Append(q, [tubes |-> n.nextTubes,
                                     path  |-> Append(path, n.moveDescription)]))
             ELSE Enqueue(Tail(nextStates), path, vis, q)

\* solvePuzzleBFS with a visited set that outlives the call
SolveStart_KeepsVisited ==
    /\ pc = "idle"
    /\ LET checked == validatePuzzle(given, puzzle.maxBalls)
       IN  IF ~checked.valid
           THEN /\ pc' = "done"
                /\ result' = [NoResult EXCEPT
                                !.returned = TRUE,
                                !.error = "Invalid puzzle state:",
                                !.validation = checked]
                /\ UNCHANGED <<queue, visited, explored, maxQueueSize, peak>>
           ELSE /\ pc' = "loop"
                /\ queue' = <<[tubes |-> given, path |-> <<>>]>>
                /\ visited' = visited \cup {serializeTubes(given)}
                /\ explored' = 0
                /\ maxQueueSize' = 1
                /\ peak' = 1
                /\ UNCHANGED result
    /\ expanded' = <<>>
    /\ UNCHANGED <<variant, puzzle, sessionVars, maxMoves, firstRun, given, appVars>>

\* solvePuzzleBFS returning search statistics for an invalid puzzle
SolveStart_StatsOnInvalid ==
    /\ pc = "idle"
    /\ LET checked == validatePuzzle(given, puzzle.maxBalls)
       IN  IF ~checked.valid
           THEN /\ pc' = "done"
                /\ result' = [NoResult EXCEPT
                                !.returned = TRUE,
                                !.error = "Invalid puzzle state:",
                                !.validation = checked,
                                !.hasStats = TRUE,
                                !.reason = "Invalid puzzle state:"]
                /\ UNCHANGED <<queue, visited, explored, maxQueueSize, peak>>
           ELSE /\ pc' = "loop"
                /\ queue' = <<[tubes |-> given, path |-> <<>>]>>
                /\ visited' = {serializeTubes(given)}
                /\ explored' = 0
                /\ maxQueueSize' = 1
                /\ peak' = 1
                /\ UNCHANGED result
    /\ expanded' = <<>>
    /\ UNCHANGED <<variant, puzzle, sessionVars, maxMoves, firstRun, given, appVars>>

\* solvePuzzleBFS up to the loop: validation, then queue and visited set
SolveStart ==
    /\ pc = "idle"
    /\ LET checked == validatePuzzle(given, puzzle.maxBalls)
       IN  IF ~checked.valid
           THEN /\ pc' = "done"
                /\ result' = [NoResult EXCEPT
                                !.returned = TRUE,
                                !.error = "Invalid puzzle state:",
                                !.validation = checked]
                /\ UNCHANGED <<queue, visited, explored, maxQueueSize, peak>>
           ELSE /\ pc' = "loop"
                /\ queue' = <<[tubes |-> given, path |-> <<>>]>>
                /\ visited' = {serializeTubes(given)}
                /\ explored' = 0
                /\ maxQueueSize' = 1
                /\ peak' = 1
                /\ UNCHANGED result
    /\ expanded' = <<>>
    /\ UNCHANGED <<variant, puzzle, sessionVars, maxMoves, firstRun, given, appVars>>

\* the while loop testing moveCount <= maxMoves
SolveStep_OffByOne ==
    /\ pc = "loop"
    /\ Len(queue) > 0 /\ explored <= maxMoves
    /\ LET node  == Head(queue)
           rest  == Tail(queue)
           mq    == Max(maxQueueSize, Len(rest))
       IN  /\ explored' = explored + 1
           /\ maxQueueSize' = mq
           /\ expanded' = Append(expanded, node)
           /\ IF isSolved(node.tubes, puzzle.maxBalls)
              THEN /\ pc' = "done"
                   /\ queue' = rest
                   /\ result' = [NoResult EXCEPT
                                   !.returned = TRUE,
                                   !.solvable = TRUE,
                                   !.moves = node.path,
                                   !.statesExplored = Cardinality(visited),
                                   !.hasStats = TRUE,
                                   !.reason = "Solution found",
                                   !.totalStatesExplored = explored + 1,
                                   !.maxQueueSize = mq]
                   /\ UNCHANGED <<visited, peak, given>>
              ELSE LET e == Enqueue(getNextStates(node.tubes, puzzle.maxBalls),
                                    node.path, visited, rest)
                   IN  /\ pc' = "loop"
                       /\ queue' = e.queue
                       /\ peak' = Max(peak, Len(e.queue))
                       /\ given' = IF explored = 0
                                   THEN tubesAfterGetNextStates(given, puzzle.maxBalls)
                                   ELSE given
                       /\ visited' = e.visited
                       /\ UNCHANGED result
    /\ UNCHANGED <<variant, puzzle, sessionVars, maxMoves, firstRun, appVars>>

\* one iteration of the while loop, the time limit not being exceeded
SolveStep ==
    /\ pc = "loop"
    /\ Len(queue) > 0 /\ explored < maxMoves
    /\ LET node  == Head(queue)
           rest  == Tail(queue)
           mq    == Max(maxQueueSize, Len(rest))
       IN  /\ explored' = explored + 1
           /\ maxQueueSize' = mq
           /\ expanded' = Append(expanded, node)
           /\ IF isSolved(node.tubes, puzzle.maxBalls)
              THEN /\ pc' = "done"
                   /\ queue' = rest
                   /\ result' = [NoResult EXCEPT
                                   !.returned = TRUE,
                                   !.solvable = TRUE,
                                   !.moves = node.path,
                                   !.statesExplored = Cardinality(visited),
                                   !.hasStats = TRUE,
                                   !.reason = "Solution found",
                                   !.totalStatesExplored = explored + 1,
                                   !.maxQueueSize = mq]
                   /\ UNCHANGED <<visited, peak, given>>
              ELSE LET e == Enqueue(getNextStates(node.tubes, puzzle.maxBalls),
                                    node.path, visited, rest)
                   IN  /\ pc' = "loop"
                       /\ queue' = e.queue
                       /\ peak' = Max(peak, Len(e.queue))
                       /\ given' = IF explored = 0
                                   THEN tubesAfterGetNextStates(given, puzzle.maxBalls)
                                   ELSE given
                       /\ visited' = e.visited
                       /\ UNCHANGED result
    /\ UNCHANGED <<variant, puzzle, sessionVars, maxMoves, firstRun, appVars>>

\* the object returned after the loop
Unsolved(reason) ==
    [NoResult EXCEPT
        !.returned = TRUE,
        !.error = reason,
        !.statesExplored = Cardinality(visited),
        !.hasStats = TRUE,
        !.reason = reason,
        !.totalStatesExplored = explored,
        !.maxQueueSize = maxQueueSize]

\* an iteration that finds currentTime - startTime > timeLimit and breaks
SolveTimeLimit ==
    /\ pc = "loop"
    /\ Len(queue) > 0 /\ explored < maxMoves
    /\ pc' = "done"
    /\ result' = Unsolved("Time limit exceeded")
    /\ UNCHANGED <<variant, puzzle, sessionVars, maxMoves, queue, visited,
                   explored, maxQueueSize, expanded, firstRun, peak, given, appVars>>

\* a loop that is only left on the state budget
SolveExit_BudgetOnly ==
    /\ pc = "loop"
    /\ ~(explored < maxMoves)
    /\ pc' = "done"
    /\ result' = Unsolved(IF explored >= maxMoves THEN "Exceeded maximum moves"
                          ELSE "No solution found")
    /\ UNCHANGED <<variant, puzzle, sessionVars, maxMoves, queue, visited,
                   explored, maxQueueSize, expanded, firstRun, peak, given, appVars>>

\* the loop condition fails
SolveExit ==
    /\ pc = "loop"
    /\ ~(Len(queue) > 0 /\ explored < maxMoves)
    /\ pc' = "done"
    /\ result' = Unsolved(IF explored >= maxMoves THEN "Exceeded maximum moves"
                          ELSE "No solution found")
    /\ UNCHANGED <<variant, puzzle, sessionVars, maxMoves, queue, visited,
                   explored, maxQueueSize, expanded, firstRun, peak, given, appVars>>

SolverIdle ==
    /\ queue = <<>>
    /\ visited = {}
    /\ explored = 0
    /\ maxQueueSize = 0
    /\ result = NoResult
    /\ expanded = <<>>
    /\ firstRun = NoResult
    /\ peak = 0
    /\ solving = FALSE
    /\ validation = NoValidation

SessionStart ==
    /\ tubes = puzzle.tubes
    /\ moveCount = 0
    /\ moveHistory = <<>>
    /\ redoStack = <<>>
    /\ isComplete = FALSE
    /\ log = <<>>

Init ==
    /\ variant \in {"App", "part_000"}
    /\ puzzle \in SessionPuzzles
    /\ SessionStart
    /\ pc = "session"
    /\ maxMoves = DefaultMaxMoves
    /\ SolverIdle
    /\ given = <<>>

Next ==
    \/ \E fromTube \in TubeIdx(tubes), toTube \in TubeIdx(tubes) : MakeMove(fromTube, toTube)
    \/ Undo
    \/ Redo
    \/ StartNewGame

Spec == Init /\ [][Next]_vars

(***************************************************************************)
(* The solver on its own: solvePuzzleBFS(puzzle.tubes, puzzle.maxBalls,    *)
(* maxMoves) from the call to the return.                                  *)
(***************************************************************************)
SolverInit ==
    /\ variant = "App"
    /\ puzzle \in SolverPuzzles
    /\ SessionStart
    /\ pc = "idle"
    /\ maxMoves \in (1 .. SmallBudget) \cup {DefaultMaxMoves}
    /\ SolverIdle
    /\ given = puzzle.tubes

SolverNext ==
    \/ SolveStart
    \/ SolveStep
    \/ SolveTimeLimit
    \/ SolveExit

SolverSpec == SolverInit /\ [][SolverNext]_vars

\* what every SolveStep, and no other step, does: under the loop condition
\* it increments the count of dequeued states
SolveIteration ==
    /\ pc = "loop"
    /\ Len(queue) > 0 /\ explored < maxMoves
    /\ explored' = explored + 1

\* a call that was made runs on: the function starts, an iteration whose
\* loop condition holds goes through unless it breaks on the time limit,
\* and the code after the loop runs once the loop condition fails.
\* SolveIteration stands for SolveStep in the fairness condition: it is
\* enabled exactly when SolveStep is and a step is a SolveIteration step
\* exactly when it is a SolveStep step.
SolverFairSpec ==
    /\ SolverSpec
    /\ WF_vars(SolveStart)
    /\ WF_explored(SolveIteration)
    /\ WF_vars(SolveExit)

(***************************************************************************)
(* Two runs of the solver on the same arguments, one after the other: the  *)
(* Solve button pressed again on an unchanged board.  The second call      *)
(* builds its own queue, visited set and counters in SolveStart; what the  *)
(* first call left in them is garbage by then.                             *)
(***************************************************************************)
SolveAgain ==
    /\ pc = "done"
    /\ ~firstRun.returned
    /\ firstRun' = result
    /\ pc' = "idle"
    /\ result' = NoResult
    /\ UNCHANGED <<variant, puzzle, sessionVars, maxMoves, queue, visited,
                   explored, maxQueueSize, expanded, peak, given, appVars>>

TwoRunsNext ==
    \/ SolveStart
    \/ SolveStep
    \/ SolveTimeLimit
    \/ SolveExit
    \/ SolveAgain

TwoRunsSpec == SolverInit /\ [][TwoRunsNext]_vars

(***************************************************************************)
(* The solver inside a session of App.jsx.  handleSolve validates the      *)
(* board and arms a timer; the timer's callback calls solvePuzzleBFS on a  *)
(* copy of the board handleSolve saw and stores what it returns.  Moves,   *)
(* undos and redos can come between the click and the callback; nothing    *)
(* comes between the callback's start and its end.                         *)
(***************************************************************************)
\* handleSolve up to setTimeout.  The callback closes over the tubes of
\* this render; that array and its tubes are never written to afterwards
\* (makeMove and undo build new arrays), so the copy the callback makes
\* has the contents recorded here.
HandleSolve ==
    /\ pc = "session"
    /\ variant = "App"
    /\ ~solving
    /\ LET validationResult == validatePuzzle(tubes, puzzle.maxBalls)
       IN  /\ validation' = validationResult
           /\ result' = NoResult
           /\ IF ~validationResult.valid
              THEN /\ solving' = FALSE
                   /\ UNCHANGED given
              ELSE /\ solving' = TRUE
                   /\ given' = tubes
    /\ UNCHANGED <<variant, puzzle, sessionVars, pc, maxMoves, queue, visited,
                   explored, maxQueueSize, expanded, firstRun, peak>>

\* the timer fires: the callback is about to call solvePuzzleBFS
SolveTimeout ==
    /\ pc = "session"
    /\ solving
    /\ pc' = "idle"
    /\ log' = Remember(log, Entry(log, "solve", -1, -1, TRUE, Session))
    /\ UNCHANGED <<variant, puzzle, tubes, moveCount, moveHistory, redoStack,
                   isComplete, maxMoves, queue, visited, explored, maxQueueSize,
                   result, expanded, firstRun, peak, given, solving, validation>>

\* the callback after solvePuzzleBFS returned: setSolution(result),
\* setSolving(false); the locals of the call are gone
SolveReturn ==
    /\ pc = "done"
    /\ solving
    /\ pc' = "session"
    /\ solving' = FALSE
    /\ queue' = <<>>
    /\ visited' = {}
    /\ explored' = 0
    /\ maxQueueSize' = 0
    /\ expanded' = <<>>
    /\ peak' = 0
    /\ given' = <<>>
    /\ UNCHANGED <<variant, puzzle, sessionVars, maxMoves, result, firstRun,
                   validation>>

\* two-tube puzzles, which keep the sessions with a solver run few; the last
\* one is valid and has no move at all, so that its search runs out of boards
PlayPuzzles ==
    { [maxBalls |-> 2, tubes |-> << <<"RD">>, <<"RD">> >>],
      [maxBalls |-> 3, tubes |-> << <<"RD", "RD">>, <<"RD">> >>],
      [maxBalls |-> 2, tubes |-> << <<"RD", "PK">>, <<"PK", "RD">> >>] }

PlayInit ==
    /\ variant = "App"
    /\ puzzle \in PlayPuzzles
    /\ SessionStart
    /\ pc = "session"
    /\ maxMoves = DefaultMaxMoves
    /\ SolverIdle
    /\ given = <<>>

PlayNext ==
    \/ \E fromTube \in TubeIdx(tubes), toTube \in TubeIdx(tubes) : MakeMove(fromTube, toTube)
    \/ Undo
    \/ Redo
    \/ StartNewGame
    \/ HandleSolve
    \/ SolveTimeout
    \/ SolveStart
    \/ SolveStep
    \/ SolveTimeLimit
    \/ SolveExit
    \/ SolveReturn

PlaySpec == PlayInit /\ [][PlayNext]_vars

(***************************************************************************)
(* The rules on their own: a board moved by any legal move, starting from  *)
(* the valid puzzles.  tubes ranges over every board legal play reaches.   *)
(***************************************************************************)
RulesPuzzles == {p \in SolverPuzzles : validatePuzzle(p.tubes, p.maxBalls).valid}

RulesInit ==
    /\ variant = "App"
    /\ puzzle \in RulesPuzzles
    /\ SessionStart
    /\ pc = "rules"
    /\ maxMoves = DefaultMaxMoves
    /\ SolverIdle
    /\ given = <<>>

\* a ball moved as makeMove moves it, without the session's bookkeeping
LegalMove(fromTube, toTube) ==
    /\ pc = "rules"
    /\ isValidMove(tubes, puzzle.maxBalls, fromTube, toTube)
    /\ tubes' = moveBall(tubes, fromTube, toTube)
    /\ UNCHANGED <<variant, puzzle, moveCount, moveHistory, redoStack,
                   isComplete, log, solverVars>>

RulesNext ==
    \E fromTube \in TubeIdx(tubes), toTube \in TubeIdx(tubes) :
        LegalMove(fromTube, toTube)

RulesSpec == RulesInit /\ [][RulesNext]_vars

(***************************************************************************)
(* Reference notions the claims are stated with: the plain legality rule,  *)
(* the plain move, the solved board, and reachability in the move graph.   *)
(* They are written from the rules of the game, not from the solver.       *)
(***************************************************************************)
Legal(ts, K, i, j) ==
    /\ i # j
    /\ Len(ts[i + 1]) > 0
    /\ Len(ts[j + 1]) < K
    /\ (Len(ts[j + 1]) = 0 \/ ts[j + 1][1] = ts[i + 1][1])

PlainMove(ts, i, j) ==
    [ts EXCEPT ![i + 1] = Tail(ts[i + 1]), ![j + 1] = <<ts[i + 1][1]>> \o ts[j + 1]]

SolvedBoard(ts, K) ==
    \A t \in 1 .. Len(ts) :
        Len(ts[t]) = 0 \/ (Len(ts[t]) = K /\ \A k \in 1 .. K : ts[t][k] = ts[t][1])

LegalSuccessors(ts, K) ==
    { PlainMove(ts, p[1], p[2]) :
        p \in {q \in TubeIdx(ts) \X TubeIdx(ts) : Legal(ts, K, q[1], q[2])} }

AdmittedSuccessors(ts, K) ==
    LET ns == getNextStates(ts, K)
    IN  { ns[k].nextTubes : k \in 1 .. Len(ns) }

Successors(ts, K, pruned) ==
    IF pruned THEN AdmittedSuccessors(ts, K) ELSE LegalSuccessors(ts, K)

RECURSIVE ReachFrom(_, _, _, _)
ReachFrom(frontier, seen, K, pruned) ==
    LET next == UNION {Successors(b, K, pruned) : b \in frontier} \ seen
    IN  IF next = {} THEN seen ELSE ReachFrom(next, seen \cup next, K, pruned)

\* the boards reachable from ts by legal moves (pruned = FALSE) or by the
\* moves getNextStates admits (pruned = TRUE)
Reachable(ts, K, pruned) == ReachFrom({ts}, {ts}, K, pruned)

SolvedReachable(ts, K, pruned) == {b \in Reachable(ts, K, pruned) : SolvedBoard(b, K)}

RECURSIVE DistFrom(_, _, _, _)
DistFrom(frontier, seen, K, d) ==
    IF \E b \in frontier : SolvedBoard(b, K) THEN d
    ELSE LET next == UNION {LegalSuccessors(b, K) : b \in frontier} \ seen
         IN  IF next = {} THEN -1 ELSE DistFrom(next, seen \cup next, K, d + 1)

\* the least number of legal moves from ts to a solved board, -1 if there is none
MinLegalMoves(ts, K) == DistFrom({ts}, {ts}, K, 0)

RECURSIVE ReplaysToSolved(_, _, _)
\* moves, read as (from, to) off their descriptions, are legal one after the
\* other from ts and end on a solved board
ReplaysToSolved(ts, moves, K) ==
    IF Len(moves) = 0 THEN SolvedBoard(ts, K)
    ELSE LET i == Head(moves).fromLabel - 1
             j == Head(moves).toLabel - 1
         IN  /\ i \in TubeIdx(ts) /\ j \in TubeIdx(ts)
             /\ Legal(ts, K, i, j)
             /\ ReplaysToSolved(PlainMove(ts, i, j), Tail(moves), K)

Returned == pc = "done" /\ result.returned

BudgetHit == result.reason \in {"Time limit exceeded", "Exceeded maximum moves"}

(***************************************************************************)
(* C1.  BFS optimality: for a valid board from which a solved board is     *)
(* reachable, and budgets that are not hit, solvePuzzleBFS returns         *)
(* solvable with as many moves as the least number of legal moves          *)
(* (no pruning, no frozen tubes) to a solved board.                        *)
(* Fails: << <<RD,PK>>, <<RD,PK>>, <<>>, <<RD,PK>> >> with maxBalls 3 is   *)
(* solved in 5 legal moves, the search returns 6.                          *)
(***************************************************************************)
C1_BfsOptimal ==
    (/\ Returned
     /\ validatePuzzle(puzzle.tubes, puzzle.maxBalls).valid
     /\ ~BudgetHit
     /\ MinLegalMoves(puzzle.tubes, puzzle.maxBalls) >= 0)
    => /\ result.solvable
       /\ Len(result.moves) = MinLegalMoves(puzzle.tubes, puzzle.maxBalls)

(***************************************************************************)
(* C2.  Solution validity: when solvePuzzleBFS returns solvable = true,    *)
(* the returned moves replayed from the initial board are legal at every   *)
(* step and the last board is solved.                                      *)
(***************************************************************************)
C2_SolutionValid ==
    (Returned /\ result.solvable)
    => ReplaysToSolved(puzzle.tubes, result.moves, puzzle.maxBalls)

C2_Witness ==
    /\ Returned /\ result.solvable
    /\ Len(result.moves) >= 4
    /\ \E k \in 1 .. Len(result.moves) : result.moves[k].onTopOf = "empty"
    /\ \E k \in 1 .. Len(result.moves) : result.moves[k].onTopOf # "empty"

(***************************************************************************)
(* C3.  Exhaustion proves unsolvability: a run on a valid board that ends  *)
(* with reason 'No solution found' means no solved board is reachable      *)
(* from the initial board by legal moves.                                  *)
(***************************************************************************)
C3_ExhaustionMeansUnsolvable ==
    (Returned /\ result.reason = "No solution found")
    => SolvedReachable(puzzle.tubes, puzzle.maxBalls, FALSE) = {}

C3_Witness ==
    /\ Returned /\ result.reason = "No solution found"
    /\ result.totalStatesExplored > 1
    /\ validatePuzzle(puzzle.tubes, puzzle.maxBalls).valid

(***************************************************************************)
(* C4.  As claimed: every solved board reachable from the board by legal   *)
(* moves is reachable by the moves getNextStates admits.                   *)
(* Fails: from << <<RD>>, <<RD>>, <<>> >> the solved board with both RD    *)
(* in the third tube needs a move into the empty tube, which is pruned.    *)
(***************************************************************************)
C4_EverySolvedBoardKept ==
    pc = "rules"
    => SolvedReachable(tubes, puzzle.maxBalls, FALSE)
         \subseteq Reachable(tubes, puzzle.maxBalls, TRUE)

(***************************************************************************)
(* C4, amended.  The pruning loses no solvability: whenever some solved    *)
(* board is reachable from the board by legal moves, some solved board is  *)
(* reachable by the moves getNextStates admits.                            *)
(***************************************************************************)
C4_SolvabilityKept ==
    pc = "rules"
    => (SolvedReachable(tubes, puzzle.maxBalls, FALSE) # {}
        => SolvedReachable(tubes, puzzle.maxBalls, TRUE) # {})

\* a board with a solved board in reach where the pruning rejects a legal
\* move into an empty tube
C4_Witness ==
    /\ pc = "rules"
    /\ tubes # puzzle.tubes
    /\ ~SolvedBoard(tubes, puzzle.maxBalls)
    /\ SolvedReachable(tubes, puzzle.maxBalls, FALSE) # {}
    /\ \E i \in TubeIdx(tubes), j \in TubeIdx(tubes) :
        /\ Legal(tubes, puzzle.maxBalls, i, j)
        /\ Len(At(tubes, j)) = 0
        /\ ~Admitted(tubes, puzzle.maxBalls, i, j)

(***************************************************************************)
(* The session claims read the observer: Last is the latest operation,     *)
(* First the one before it (when two are remembered).                      *)
(***************************************************************************)
HasLast == Len(log) >= 1
Last == log[Len(log)]
HasTwo == Len(log) = 2
First == log[1]

\* the operation changed the session (an accepted move, an undo with a
\* history, a redo with a redo stack)
Acted(e) == e.op \in {"makeMove", "undo", "redo"} /\ e.ok

(***************************************************************************)
(* C5.  Legality soundness: makeMove(from, to) with an illegal move (from  *)
(* = to, source empty, destination full, or destination non-empty with a   *)
(* different top colour) returns false and leaves board, history, redo     *)
(* stack, move counter and completion flag unchanged.                      *)
(***************************************************************************)
C5_IllegalMoveRejected ==
    (/\ HasLast
     /\ Last.op = "makeMove"
     /\ ~Legal(Last.before.tubes, puzzle.maxBalls, Last.from, Last.to))
    => /\ ~Last.ok
       /\ Session = Last.before

\* a rejected move onto a full tube, in a session that has moved before
C5_Witness ==
    /\ HasLast
    /\ Last.op = "makeMove" /\ ~Last.ok
    /\ Last.from # Last.to
    /\ Len(At(Last.before.tubes, Last.from)) > 0
    /\ Len(At(Last.before.tubes, Last.to)) = puzzle.maxBalls
    /\ Len(moveHistory) > 0
    /\ Len(redoStack) > 0

(***************************************************************************)
(* C6.  Undo inverse law: a legal makeMove followed by undo restores the   *)
(* board, the move history and the move counter to what they were before   *)
(* the move.                                                               *)
(***************************************************************************)
C6_UndoRestores ==
    (/\ HasTwo
     /\ First.op = "makeMove" /\ First.ok
     /\ Last.op = "undo")
    => /\ tubes = First.before.tubes
       /\ moveHistory = First.before.moveHistory
       /\ moveCount = First.before.moveCount

C6_Witness ==
    /\ HasTwo
    /\ First.op = "makeMove" /\ First.ok
    /\ Last.op = "undo"
    /\ First.before.moveCount > 0
    /\ Len(At(First.before.tubes, First.to)) > 0

(***************************************************************************)
(* C7.  Redo inverse law: after a legal makeMove and one undo, redo gives  *)
(* the board that existed right after the move, the move is again the      *)
(* last entry of the history and the counter has its post-move value.      *)
(***************************************************************************)
C7_RedoRestores ==
    (/\ HasTwo
     /\ First.op = "undo" /\ First.ok
     /\ First.prev = [op |-> "makeMove", ok |-> TRUE]
     /\ Last.op = "redo")
    => /\ tubes = First.before.tubes
       /\ moveHistory = First.before.moveHistory
       /\ moveCount = First.before.moveCount
       /\ Len(moveHistory) > 0
       /\ moveHistory[Len(moveHistory)] = Last.before.redoStack[Len(Last.before.redoStack)]

C7_Witness ==
    /\ HasTwo
    /\ First.op = "undo" /\ First.ok
    /\ First.prev = [op |-> "makeMove", ok |-> TRUE]
    /\ Last.op = "redo"
    /\ moveCount >= 2

(***************************************************************************)
(* C8.  Redo invalidation: after undos, an accepted new makeMove leaves    *)
(* the redo stack empty, and a redo after it changes nothing (board,       *)
(* history, redo stack, counter, completion flag).                         *)
(***************************************************************************)
C8_NewMoveClearsRedo ==
    /\ (/\ HasLast
        /\ Last.op = "makeMove" /\ Last.ok
        /\ Len(Last.before.redoStack) > 0)
       => redoStack = <<>>
    /\ (/\ HasTwo
        /\ First.op = "makeMove" /\ First.ok
        /\ Len(First.before.redoStack) > 0
        /\ Last.op = "redo")
       => Session = Last.before

C8_Witness ==
    /\ HasTwo
    /\ First.op = "makeMove" /\ First.ok
    /\ Len(First.before.redoStack) >= 2
    /\ Last.op = "redo"

(***************************************************************************)
(* C9.  Last-undo-only redo: after any redo the redo stack is empty; after *)
(* two or more consecutive undos one redo re-applies only the most         *)
(* recently undone move, and a second redo is a no-op.                     *)
(* Fails in part_000: its redo sets the redo stack to the rendered stack   *)
(* without its top, so the older undone moves stay and are redone next.    *)
(***************************************************************************)
C9_RedoEmptiesStack ==
    /\ (HasLast /\ Last.op = "redo") => redoStack = <<>>
    /\ (/\ HasTwo
        /\ First.op = "undo" /\ First.ok
        /\ First.prev = [op |-> "undo", ok |-> TRUE]
        /\ Last.op = "redo")
       => moveHistory = Append(Last.before.moveHistory,
                               Last.before.redoStack[Len(Last.before.redoStack)])
    /\ (/\ HasTwo
        /\ First.op = "redo" /\ First.ok
        /\ Last.op = "redo")
       => Session = Last.before

(***************************************************************************)
(* C10.  The completion flag reflects the current board: after every       *)
(* accepted makeMove, every undo and every redo the flag is true exactly   *)
(* when the resulting board is solved.                                     *)
(* Fails in part_000: checkPuzzleComplete only ever sets the flag, and     *)
(* undo does not touch it.                                                 *)
(***************************************************************************)
C10_FlagReflectsBoard ==
    (HasLast /\ Acted(Last))
    => (isComplete <=> SolvedBoard(tubes, puzzle.maxBalls))

(***************************************************************************)
(* Reference notion for the counting claims: the balls of one colour on a  *)
(* board, tube by tube.                                                    *)
(***************************************************************************)
RECURSIVE BallsOf(_, _)
BallsOf(ts, c) ==
    IF Len(ts) = 0 THEN 0
    ELSE Cardinality({k \in 1 .. Len(Head(ts)) : Head(ts)[k] = c}) + BallsOf(Tail(ts), c)

ColoursOn(ts) == UNION { {ts[t][k] : k \in 1 .. Len(ts[t])} : t \in 1 .. Len(ts) }

SameBalls(a, b) ==
    \A c \in ColoursOn(a) \cup ColoursOn(b) \cup validColors : BallsOf(a, c) = BallsOf(b, c)

(***************************************************************************)
(* C11.  Ball conservation: for every colour, the number of balls of that  *)
(* colour over all tubes is the same after every makeMove, undo and redo   *)
(* as before it, and the same in every successor getNextStates generates   *)
(* as in the board it was generated from.                                  *)
(***************************************************************************)
C11_BallsConserved ==
    /\ (HasLast /\ Last.op \in {"makeMove", "undo", "redo"})
       => SameBalls(tubes, Last.before.tubes)
    /\ pc = "session"
       => LET ns == getNextStates(tubes, puzzle.maxBalls)
          IN  \A k \in 1 .. Len(ns) : SameBalls(ns[k].nextTubes, tubes)

\* a redo that moved a ball, on a board getNextStates has successors for
C11_Witness ==
    /\ HasTwo
    /\ First.op = "undo" /\ First.ok
    /\ Last.op = "redo" /\ Last.ok
    /\ tubes # Last.before.tubes
    /\ Len(getNextStates(tubes, puzzle.maxBalls)) >= 2

(***************************************************************************)
(* C12.  Validator completeness: validatePuzzle evaluates every check, so  *)
(* its error list holds exactly one entry for every tube longer than K,    *)
(* one for every colour on the board whose total differs from K, and one   *)
(* for every colour on the board outside the known set, all together; and  *)
(* valid is true exactly when the list is empty.                           *)
(***************************************************************************)
LongTubes(ts, K) == {t \in 1 .. Len(ts) : Len(ts[t]) > K}
MiscountedColours(ts, K) == {c \in ColoursOn(ts) : BallsOf(ts, c) # K}
UnknownColours(ts) == ColoursOn(ts) \ DOMAIN COLORS

C12_ValidatorComplete ==
    pc # "idle"
    => LET ts == puzzle.tubes
           K  == puzzle.maxBalls
           v  == validatePuzzle(ts, K)
           e  == v.errors
       IN  /\ Len(e) = Cardinality(LongTubes(ts, K))
                       + Cardinality(MiscountedColours(ts, K))
                       + Cardinality(UnknownColours(ts))
           /\ \A t \in LongTubes(ts, K) :
                \E k \in 1 .. Len(e) :
                    /\ e[k].kind = "exceeds maximum capacity"
                    /\ e[k].tube = t
                    /\ e[k].expected = K
           /\ \A c \in MiscountedColours(ts, K) :
                \E k \in 1 .. Len(e) :
                    /\ e[k].kind = "has balls (expected)"
                    /\ e[k].color = c
                    /\ e[k].count = BallsOf(ts, c)
                    /\ e[k].expected = K
           /\ \A c \in UnknownColours(ts) :
                \E k \in 1 .. Len(e) :
                    /\ e[k].kind = "Invalid color code"
                    /\ e[k].color = c
           /\ v.valid <=> Len(e) = 0

\* the solver has validated a board with an overlong tube, a miscounted
\* colour and an unknown colour at once
C12_Witness ==
    /\ Returned
    /\ LongTubes(puzzle.tubes, puzzle.maxBalls) # {}
    /\ MiscountedColours(puzzle.tubes, puzzle.maxBalls) # {}
    /\ UnknownColours(puzzle.tubes) # {}
    /\ Len(result.validation.errors) >= 3

(***************************************************************************)
(* C13.  Invalid puzzle refusal: on an initial board that is not valid (a  *)
(* tube too long, a colour miscounted or unknown) solvePuzzleBFS returns   *)
(* at once: it never enters the loop, dequeues and expands nothing, and    *)
(* returns solvable = false with the validation errors and no search       *)
(* statistics.                                                             *)
(***************************************************************************)
InvalidBoard(ts, K) ==
    \/ LongTubes(ts, K) # {}
    \/ MiscountedColours(ts, K) # {}
    \/ UnknownColours(ts) # {}

C13_InvalidRefused ==
    InvalidBoard(puzzle.tubes, puzzle.maxBalls)
    => /\ pc \in {"idle", "done"}
       /\ explored = 0
       /\ queue = <<>>
       /\ visited = {}
       /\ pc = "done"
          => /\ result.returned
             /\ ~result.solvable
             /\ result.moves = <<>>
             /\ ~result.hasStats
             /\ ~result.validation.valid
             /\ Len(result.validation.errors) > 0
             /\ result.validation.errors
                  = validatePuzzle(puzzle.tubes, puzzle.maxBalls).errors

\* the solver has returned on a board whose only fault is an unknown colour
C13_Witness ==
    /\ Returned
    /\ InvalidBoard(puzzle.tubes, puzzle.maxBalls)
    /\ LongTubes(puzzle.tubes, puzzle.maxBalls) = {}
    /\ result.error = "Invalid puzzle state:"

(***************************************************************************)
(* The solver claims read the observer expanded: the nodes dequeued so     *)
(* far, in the order they were dequeued.                                   *)
(***************************************************************************)
NoSolvedDequeued ==
    \A k \in 1 .. Len(expanded) : ~SolvedBoard(expanded[k].tubes, puzzle.maxBalls)

(***************************************************************************)
(* C14.  Exhaustion reason: whenever the search has stopped with the queue *)
(* empty and no solved board dequeued, the reported reason is              *)
(* 'No solution found', whatever maxMoves is.                              *)
(* Fails: on << <<RD>>, <<PK>>, <<LG,RD>>, <<LG,PK>> >> with maxBalls 2    *)
(* and maxMoves 1 the only board is dequeued, nothing is enqueued, the     *)
(* counter equals maxMoves and the reason is 'Exceeded maximum moves'.     *)
(***************************************************************************)
C14_ExhaustionReason ==
    (/\ Returned
     /\ result.hasStats
     /\ Len(queue) = 0
     /\ NoSolvedDequeued)
    => /\ ~result.solvable
       /\ result.reason = "No solution found"

(***************************************************************************)
(* C15.  As claimed: two runs of solvePuzzleBFS on the same initial board, *)
(* maxBalls and maxMoves (and the same time limit) return the same         *)
(* solvable flag, the same moves and the same statesExplored.              *)
(* Fails: whether currentTime - startTime > timeLimit holds at an          *)
(* iteration depends on the clock, so one run can stop on the time limit   *)
(* where the other goes on to a solution.                                  *)
(***************************************************************************)
BothReturned == Returned /\ firstRun.returned

SameOutcome ==
    /\ result.solvable = firstRun.solvable
    /\ result.moves = firstRun.moves
    /\ result.statesExplored = firstRun.statesExplored

C16_NoBoardTwice ==
    pc \in {"loop", "done"}
    => /\ \A a, b \in 1 .. Len(expanded) :
            a # b => expanded[a].tubes # expanded[b].tubes
       /\ \A a, b \in 1 .. Len(queue) :
            a # b => queue[a].tubes # queue[b].tubes
       /\ \A a \in 1 .. Len(queue), b \in 1 .. Len(expanded) :
            queue[a].tubes # expanded[b].tubes

\* the search is under way and a dequeued board had a move leading back to
\* a board dequeued before it
C16_Witness ==
    /\ pc = "loop"
    /\ Len(queue) >= 2
    /\ \E a, b \in 1 .. Len(expanded) :
        /\ b < a
        /\ expanded[b].tubes \in AdmittedSuccessors(expanded[a].tubes, puzzle.maxBalls)

(***************************************************************************)
(* Depth in the graph of the moves getNextStates admits: Layers(ts, K)[d]  *)
(* is the set of boards whose least number of admitted moves from ts is    *)
(* d - 1.                                                                  *)
(***************************************************************************)
RECURSIVE LayersFrom(_, _, _, _)
LayersFrom(frontier, seen, K, acc) ==
    LET next == UNION {AdmittedSuccessors(b, K) : b \in frontier} \ seen
    IN  IF next = {} THEN Append(acc, frontier)
        ELSE LayersFrom(next, seen \cup next, K, Append(acc, frontier))

Layers(ts, K) == LayersFrom({ts}, {ts}, K, <<>>)

RECURSIVE IsAdmittedPath(_, _, _, _)
\* moves, read as (from, to) off their descriptions, lead from ts to target,
\* each by a move getNextStates admits
IsAdmittedPath(ts, moves, K, target) ==
    IF Len(moves) = 0 THEN ts = target
    ELSE LET i    == Head(moves).fromLabel - 1
             j    == Head(moves).toLabel - 1
         IN  /\ i \in TubeIdx(ts) /\ j \in TubeIdx(ts)
             /\ Legal(ts, K, i, j)
             /\ PlainMove(ts, i, j) \in AdmittedSuccessors(ts, K)
             /\ IsAdmittedPath(PlainMove(ts, i, j), Tail(moves), K, target)

(***************************************************************************)
(* C17.  BFS ordering: the path lengths of the nodes solvePuzzleBFS        *)
(* dequeues are non-decreasing; the path of every node (dequeued or in     *)
(* the queue) leads to its board and is a shortest one in the graph of     *)
(* the moves getNextStates admits; so a returned solution is as long as    *)
(* the least depth of a solved board in that graph.                        *)
(***************************************************************************)
C17_BfsOrder ==
    pc \in {"loop", "done"}
    => LET K      == puzzle.maxBalls
           layers == Layers(puzzle.tubes, K)
           nodes  == expanded \o queue
       IN  /\ \A k \in 1 .. Len(expanded) - 1 :
                Len(expanded[k].path) <= Len(expanded[k + 1].path)
           /\ \A k \in 1 .. Len(nodes) :
                /\ IsAdmittedPath(puzzle.tubes, nodes[k].path, K, nodes[k].tubes)
                /\ Len(nodes[k].path) + 1 <= Len(layers)
                /\ nodes[k].tubes \in layers[Len(nodes[k].path) + 1]
           /\ (Returned /\ result.solvable)
              => /\ Len(result.moves) + 1 <= Len(layers)
                 /\ \E b \in layers[Len(result.moves) + 1] : SolvedBoard(b, K)
                 /\ \A d \in 1 .. Len(result.moves) :
                      \A b \in layers[d] : ~SolvedBoard(b, K)

\* a solution of several moves was returned after nodes of several depths
\* were dequeued, with nodes left in the queue
C17_Witness ==
    /\ Returned /\ result.solvable
    /\ Len(result.moves) >= 4
    /\ Len(expanded) >= 10
    /\ Len(queue) >= 1
    /\ \E k \in 1 .. Len(expanded) - 1 :
        Len(expanded[k].path) < Len(expanded[k + 1].path)

(***************************************************************************)
(* C18.  Pruning only restricts: every successor getNextStates produces    *)
(* is the result of a move isValidMove accepts on the parent board (source *)
(* non-empty, destination another tube and not full, destination empty or  *)
(* with the same top colour): its board is the one makeMove would make.    *)
(***************************************************************************)
C18_SuccessorsAreValidMoves ==
    pc = "rules"
    => LET K  == puzzle.maxBalls
           ns == getNextStates(tubes, K)
       IN  \A k \in 1 .. Len(ns) :
            LET i == ns[k].moveDescription.fromLabel - 1
                j == ns[k].moveDescription.toLabel - 1
            IN  /\ i \in TubeIdx(tubes) /\ j \in TubeIdx(tubes)
                /\ isValidMove(tubes, K, i, j)
                /\ Legal(tubes, K, i, j)
                /\ ns[k].nextTubes = moveBall(tubes, i, j)
                /\ ns[k].nextTubes = PlainMove(tubes, i, j)

\* a board reached by play where getNextStates admits some moves that
\* isValidMove accepts and rejects others that isValidMove accepts too
C18_Witness ==
    /\ pc = "rules"
    /\ tubes # puzzle.tubes
    /\ Len(getNextStates(tubes, puzzle.maxBalls)) >= 2
    /\ \E i \in TubeIdx(tubes), j \in TubeIdx(tubes) :
        /\ isValidMove(tubes, puzzle.maxBalls, i, j)
        /\ ~Admitted(tubes, puzzle.maxBalls, i, j)

(***************************************************************************)
(* C19.  Frozen completed tubes: if tube i is full and of one colour in a  *)
(* board the search dequeued, tube i has the same contents in every board  *)
(* the search derives from it: in every node whose path continues that     *)
(* board's path, and in every board the moves getNextStates admits lead    *)
(* to from it.                                                             *)
(***************************************************************************)
CompleteTube(tube, K) ==
    Len(tube) = K /\ \A k \in 1 .. K : tube[k] = tube[1]

IsPrefix(p, q) == Len(p) <= Len(q) /\ SubSeq(q, 1, Len(p)) = p

KeepsCompleteTubes(parent, child, K) ==
    \A t \in 1 .. Len(parent) : CompleteTube(parent[t], K) => child[t] = parent[t]

C19_CompleteTubesFrozen ==
    pc \in {"loop", "done"}
    => LET K     == puzzle.maxBalls
           nodes == expanded \o queue
       IN  /\ \A a \in 1 .. Len(expanded), b \in 1 .. Len(nodes) :
                IsPrefix(expanded[a].path, nodes[b].path)
                => KeepsCompleteTubes(expanded[a].tubes, nodes[b].tubes, K)
           /\ Len(expanded) > 0
              => \A c \in Reachable(expanded[Len(expanded)].tubes, K, TRUE) :
                    KeepsCompleteTubes(expanded[Len(expanded)].tubes, c, K)

\* a dequeued board with a completed tube, and a node dequeued two or more
\* moves further down its path
C19_Witness ==
    /\ pc \in {"loop", "done"}
    /\ \E a, b \in 1 .. Len(expanded) :
        /\ \E t \in 1 .. Len(expanded[a].tubes) :
              CompleteTube(expanded[a].tubes[t], puzzle.maxBalls)
        /\ IsPrefix(expanded[a].path, expanded[b].path)
        /\ Len(expanded[b].path) >= Len(expanded[a].path) + 2

(***************************************************************************)
(* C20.  State budget: the number of states solvePuzzleBFS has dequeued    *)
(* never exceeds maxMoves; and when the search has stopped with that       *)
(* number equal to maxMoves, the queue not empty and no solved board       *)
(* dequeued, the result is solvable = false with reason                    *)
(* 'Exceeded maximum moves'.                                               *)
(***************************************************************************)
C20_StateBudget ==
    pc \in {"loop", "done"}
    => /\ Len(expanded) <= maxMoves
       /\ explored <= maxMoves
       /\ (/\ Returned
           /\ result.hasStats
           /\ Len(expanded) = maxMoves
           /\ Len(queue) > 0
           /\ NoSolvedDequeued)
          => /\ ~result.solvable
             /\ result.moves = <<>>
             /\ result.reason = "Exceeded maximum moves"
             /\ result.totalStatesExplored = maxMoves

\* a run stopped by a budget of two or more states with boards still queued
C20_Witness ==
    /\ Returned
    /\ maxMoves >= 2
    /\ Len(expanded) = maxMoves
    /\ Len(queue) > 0
    /\ NoSolvedDequeued
    /\ result.reason = "Exceeded maximum moves"

(***************************************************************************)
(* C21.  Maximum queue size statistic: when solvePuzzleBFS has returned    *)
(* with statistics, searchStats.maxQueueSize is the largest length the     *)
(* queue had during the run, the lengths right after successors were       *)
(* pushed included.                                                        *)
(* Fails: maxQueueSize is only updated between queue.shift() and the       *)
(* pushes.  On << <<RD>>, <<RD>>, <<>> >> with maxBalls 2 the first        *)
(* iteration leaves two nodes in the queue, the second dequeues a solved   *)
(* board, and the statistic is 1.                                          *)
(***************************************************************************)
C21_MaxQueueSize ==
    (Returned /\ result.hasStats) => result.maxQueueSize = peak

(***************************************************************************)
(* C22.  Search termination: on a valid initial board, a run in which      *)
(* neither the state budget nor the time limit is ever hit eventually      *)
(* returns, with reason 'Solution found' or 'No solution found'.           *)
(***************************************************************************)
BudgetStop == pc = "done" /\ BudgetHit

C22_Terminates ==
    ~InvalidBoard(puzzle.tubes, puzzle.maxBalls)
    => ([]~BudgetStop
        => <>(Returned /\ result.reason \in {"Solution found", "No solution found"}))

\* a run with the default budget that dequeued every board it reached and
\* found none solved
C22_Witness ==
    /\ Returned
    /\ maxMoves = DefaultMaxMoves
    /\ result.reason = "No solution found"
    /\ Len(expanded) >= 5
    /\ Len(queue) = 0

(***************************************************************************)
(* C24.  Move counter invariant: after any sequence of makeMove, undo,     *)
(* redo and startNewGame the move counter equals the length of the move    *)
(* history and is not negative.                                            *)
(***************************************************************************)
C24_CounterIsHistoryLength ==
    pc = "session"
    => /\ moveCount = Len(moveHistory)
       /\ moveCount >= 0

\* an undo right after a redo, with moves left in the history
C24_Witness ==
    /\ HasTwo
    /\ First.op = "redo" /\ First.ok
    /\ Last.op = "undo" /\ Last.ok
    /\ moveCount >= 1

(***************************************************************************)
(* C25.  History replay invariant: after any sequence of makeMove, undo    *)
(* and redo the board is the initial board with the moves of the history   *)
(* applied in order, each recorded ball being the ball that move took off  *)
(* the top of its source tube; and no tube holds more than K balls.        *)
(***************************************************************************)
RECURSIVE Replays(_, _, _)
\* history leads from ts to target, each record naming the top ball of its
\* source tube
Replays(ts, history, target) ==
    IF Len(history) = 0 THEN ts = target
    ELSE LET m == Head(history)
         IN  /\ m.from \in TubeIdx(ts) /\ m.to \in TubeIdx(ts)
             /\ m.from # m.to
             /\ Len(ts[m.from + 1]) > 0
             /\ ts[m.from + 1][1] = m.ball
             /\ Replays(PlainMove(ts, m.from, m.to), Tail(history), target)

C25_BoardIsHistoryReplayed ==
    pc = "session"
    => /\ Replays(puzzle.tubes, moveHistory, tubes)
       /\ \A t \in 1 .. Len(tubes) : Len(tubes[t]) <= puzzle.maxBalls

\* an undo that put a ball back on a tube, filling it, with moves left in
\* the history
C25_Witness ==
    /\ HasLast
    /\ Last.op = "undo" /\ Last.ok
    /\ Len(moveHistory) >= 1
    /\ \E t \in 1 .. Len(tubes) :
        /\ Len(tubes[t]) = puzzle.maxBalls
        /\ Len(Last.before.tubes[t]) < puzzle.maxBalls

(***************************************************************************)
(* C26.  Redo is never rejected: in every session state with a non-empty   *)
(* redo stack the move on top of it is legal on the board, so a redo with  *)
(* a non-empty stack always applies that move to the board and appends it  *)
(* to the history.                                                         *)
(***************************************************************************)
C26_RedoNeverRejected ==
    pc = "session"
    => /\ Len(redoStack) > 0
          => LET top == redoStack[Len(redoStack)]
             IN  /\ Legal(tubes, puzzle.maxBalls, top.from, top.to)
                 /\ isValidMove(tubes, puzzle.maxBalls, top.from, top.to)
       /\ (HasLast /\ Last.op = "redo" /\ Len(Last.before.redoStack) > 0)
          => LET top == Last.before.redoStack[Len(Last.before.redoStack)]
             IN  /\ tubes = PlainMove(Last.before.tubes, top.from, top.to)
                 /\ moveHistory = Append(Last.before.moveHistory, top)

\* a redo with two undone moves on the stack
C26_Witness ==
    /\ HasLast
    /\ Last.op = "redo"
    /\ Len(Last.before.redoStack) >= 2
    /\ tubes # Last.before.tubes

====
